---- MODULE Spec2Model ----
(***************************************************************************)
(* Model of freepdk-gen: the command line's --freq text is parsed by       *)
(* Frequency::from_str, the parsed configuration is loaded into a          *)
(* UartGeneratorBuilder, build() validates the timing plan and generate()  *)
(* decomposes the five wait intervals into the template context.           *)
(*                                                                         *)
(* Number representation.  A Rust u32 is the pair <<hi, lo>> of its two    *)
(* 16-bit halves (value hi * 2^16 + lo), so that the whole 32-bit range,   *)
(* its overflow and its wrap-around are representable.  The f64 values of  *)
(* build() are quotients of integers below 2^53 and are modelled as exact  *)
(* rationals; the one comparison whose f64 outcome is decided by rounding  *)
(* noise (a deviation exactly equal to the tolerance) takes its outcome    *)
(* as a nondeterministic input of build().                                 *)
(***************************************************************************)
EXTENDS Integers, Sequences, FiniteSets, TLC

VARIABLES arg, parsed, config, builder, result, ctx, rendered, pc

vars == <<arg, parsed, config, builder, result, ctx, rendered, pc>>

(***************************************************************************)
(* Option and Result values                                                *)
(***************************************************************************)
None == [some |-> FALSE]
Some(x) == [some |-> TRUE, v |-> x]
Ok(x) == [tag |-> "Ok", v |-> x]
Err(e) == [tag |-> "Err", err |-> e]
Panic(m) == [tag |-> "Panic", msg |-> m]

(***************************************************************************)
(* u32 arithmetic on 16-bit halves                                         *)
(***************************************************************************)
W == 256 * 256

ToU32(n) == <<n \div W, n % W>>

\* The integer a u32 stands for; usable only below 2^31.
Val(x) == x[1] * W + x[2]

U32_MAX == <<W - 1, W - 1>>

U32Lt(x, y) == x[1] < y[1] \/ (x[1] = y[1] /\ x[2] < y[2])

U32Gt(x, y) == U32Lt(y, x)

\* u32::overflowing_mul: the wrapped product and the overflow flag.
\* The halves' products stay below 2^31 for multipliers up to 1000000.
overflowing_mul(x, m) ==
    LET p0 == x[2] * m[2]
        mid == x[1] * m[2] + x[2] * m[1] + (p0 \div W)
    IN  [value |-> <<mid % W, p0 % W>>,
         overflow |-> (mid \div W > 0) \/ (x[1] * m[1] > 0)]

\* u32::overflowing_add of a small addend.
overflowing_add(x, d) ==
    LET s0 == x[2] + d
        s1 == x[1] + (s0 \div W)
    IN  [value |-> <<s1 % W, s0 % W>>, overflow |-> s1 \div W > 0]

\* Wrapping subtraction and addition of a small constant, as the release
\* build's `-` and `+` on u32 compute them.
wrapping_sub(x, d) ==
    LET s0 == x[2] - d
        borrow == IF s0 < 0 THEN 1 ELSE 0
    IN  <<(x[1] - borrow) % W, s0 % W>>

wrapping_add(x, d) == overflowing_add(x, d).value

\* x / 4 and x % 4 on u32.
U32Div4(x) == <<x[1] \div 4, (x[1] % 4) * (W \div 4) + (x[2] \div 4)>>

U32Mod4(x) == x[2] % 4

(***************************************************************************)
(* Text: a string is a sequence of one-character strings                   *)
(***************************************************************************)
DigitChars == <<"0", "1", "2", "3", "4", "5", "6", "7", "8", "9">>

is_digit(ch) == \E i \in 1..10 : DigitChars[i] = ch

to_digit(ch) == (CHOOSE i \in 1..10 : DigitChars[i] = ch) - 1

to_lowercase_char(ch) ==
    CASE ch = "H" -> "h"
      [] ch = "K" -> "k"
      [] ch = "M" -> "m"
      [] ch = "Z" -> "z"
      [] ch = "F" -> "f"
      [] ch = "O" -> "o"
      [] OTHER -> ch

to_lowercase(s) == [i \in 1..Len(s) |-> to_lowercase_char(s[i])]

\* str::find(|ch| !ch.is_digit(10)): the position of the first character
\* that is not a decimal digit, 0 for None.
find_non_digit(s) ==
    IF \E i \in 1..Len(s) : ~is_digit(s[i])
    THEN CHOOSE i \in 1..Len(s) :
            /\ ~is_digit(s[i])
            /\ \A j \in 1..(i - 1) : is_digit(s[j])
    ELSE 0

\* <u32 as FromStr>::from_str on a string of decimal digits: the empty
\* string is an error, and so is a value that does not fit 32 bits
\* (checked multiply by ten, checked add of the digit).
RECURSIVE parse_digits(_, _)
parse_digits(s, acc) ==
    IF s = <<>> THEN Some(acc)
    ELSE LET m == overflowing_mul(acc, ToU32(10))
             a == overflowing_add(m.value, to_digit(Head(s)))
         IN  IF m.overflow \/ a.overflow THEN None
             ELSE parse_digits(Tail(s), a.value)

parse_u32(s) == IF s = <<>> THEN None ELSE parse_digits(s, ToU32(0))

NotANumber == "Frequency is not a number"
InvalidSuffix == "Invalid frequency suffix"
TooBig == "Frequency is too big"

\* Suffix multipliers with a zero missing from the kilohertz arm.
multiplier_of_short_khz(lower) ==
    CASE lower = <<"h", "z">> -> 1
      [] lower = <<"k", "h", "z">> -> 100
      [] lower = <<"m", "h", "z">> -> 1000000
      [] OTHER -> 0

\* The multiplier of a lower-cased suffix; 0 stands for the `_` arm.
multiplier_of(lower) ==
    CASE lower = <<"h", "z">> -> 1
      [] lower = <<"k", "h", "z">> -> 1000
      [] lower = <<"m", "h", "z">> -> 1000000
      [] OTHER -> 0

\* from_str with a wrapping multiplication in place of overflowing_mul.
Frequency_from_str_wrapping(s) ==
    LET split_pos == find_non_digit(s)
    IN  IF split_pos = 0
        THEN LET value == parse_u32(s)
             IN  IF value.some THEN Ok(value.v) ELSE Err(NotANumber)
        ELSE LET value == parse_u32(SubSeq(s, 1, split_pos - 1))
                 multiplier ==
                    multiplier_of(to_lowercase(SubSeq(s, split_pos, Len(s))))
             IN  IF ~value.some THEN Err(NotANumber)
                 ELSE IF multiplier = 0 THEN Err(InvalidSuffix)
                 ELSE Ok(overflowing_mul(value.v, ToU32(multiplier)).value)

Frequency_from_str(s) ==
    LET split_pos == find_non_digit(s)
    IN  IF split_pos = 0
        THEN LET value == parse_u32(s)
             IN  IF value.some THEN Ok(value.v) ELSE Err(NotANumber)
        ELSE LET value_str == SubSeq(s, 1, split_pos - 1)
                 multiplier_str == SubSeq(s, split_pos, Len(s))
                 value == parse_u32(value_str)
                 multiplier == multiplier_of(to_lowercase(multiplier_str))
             IN  IF ~value.some THEN Err(NotANumber)
                 ELSE IF multiplier = 0 THEN Err(InvalidSuffix)
                 ELSE LET product == overflowing_mul(value.v, ToU32(multiplier))
                      IN  IF product.overflow THEN Err(TooBig)
                          ELSE Ok(product.value)

(***************************************************************************)
(* UartGeneratorBuilder                                                    *)
(***************************************************************************)
\* A cap of 512 loop rounds, twice what the one-byte counter holds.
MAX_CLOCKS_PER_BIT_TWO_BYTES == 512 * 4

MAX_CLOCKS_PER_BIT == 256 * 4
MIN_CLOCKS_PER_BIT == 16

\* A tolerance of 0.1, a slipped decimal place.
MAX_CLOCK_DERIVATION_TENTH == <<1, 10>>

\* 0.01 as the ratio <<numerator, denominator>>.
DEFAULT_MAX_CLOCK_DERIVATION == <<1, 100>>

InvalidOptions == [kind |-> "InvalidOptions"]
TooManyClocksPerBit(n) == [kind |-> "TooManyClocksPerBit", n |-> n]
TooManyClocksPerStopBit(n) == [kind |-> "TooManyClocksPerStopBit", n |-> n]
TooBigClockDerivation(t) == [kind |-> "TooBigClockDerivation", tol |-> t]
VeryFewClocksPerBit(n) == [kind |-> "VeryFewClocksPerBit", n |-> n]
VeryFewClocksPerHalfBit(n) == [kind |-> "VeryFewClocksPerHalfBit", n |-> n]

\* UartGeneratorBuilder::default()
DefaultBuilder ==
    [frequency |-> None, baud |-> None, tx_pin |-> None, tx_port |-> None,
     invert_tx |-> FALSE, rx_port |-> None, rx_pin |-> None,
     invert_rx |-> FALSE, max_clock_derivation |-> None, uart_num |-> None,
     stop_bits |-> None]

\* load_config without the line that stores the RX pin.
load_config_without_rx_pin(self, cfg) ==
    [self EXCEPT
        !.frequency = Some(cfg.freq),
        !.baud = Some(cfg.subcommand.baud),
        !.tx_port = Some(cfg.subcommand.tx_port),
        !.tx_pin = Some(cfg.subcommand.tx_pin),
        !.invert_tx = cfg.subcommand.invert_tx,
        !.uart_num = Some(cfg.subcommand.uart_num),
        !.stop_bits = Some(cfg.subcommand.stop_bits),
        !.rx_port = Some(cfg.subcommand.rx_port),
        !.invert_rx = cfg.subcommand.invert_rx]

load_config(self, cfg) ==
    [self EXCEPT
        !.frequency = Some(cfg.freq),
        !.baud = Some(cfg.subcommand.baud),
        !.tx_port = Some(cfg.subcommand.tx_port),
        !.tx_pin = Some(cfg.subcommand.tx_pin),
        !.invert_tx = cfg.subcommand.invert_tx,
        !.uart_num = Some(cfg.subcommand.uart_num),
        !.stop_bits = Some(cfg.subcommand.stop_bits),
        !.rx_port = Some(cfg.subcommand.rx_port),
        !.rx_pin = Some(cfg.subcommand.rx_pin),
        !.invert_rx = cfg.subcommand.invert_rx]

validate_all_params_specified(self) ==
    IF ~self.frequency.some THEN Err(InvalidOptions)
    ELSE IF ~self.baud.some THEN Err(InvalidOptions)
    ELSE Ok(TRUE)

\* The first Option::expect of build() that meets a None, "" when none does.
first_failed_expect(self) ==
    CASE ~self.frequency.some -> "Frequency should be specified"
      [] ~self.baud.some -> "Baud rate should be specified"
      [] ~self.tx_port.some -> "Tx port should be specified"
      [] ~self.tx_pin.some -> "Tx pin should be specified"
      [] ~self.uart_num.some -> "Uart number should be specified"
      [] ~self.rx_port.some -> "Rx port should be specified"
      [] ~self.rx_pin.some -> "Rx pin should be specified"
      [] OTHER -> ""

\* ((num as f64) / (den as f64)).round() as u32 for a u32 num and an
\* integer den below 2^23: long division over the four bytes of num, then
\* rounding half away from zero.  x / 0 is +inf and saturates, 0 / 0 is NaN
\* and converts to 0.
round_ratio(num, den) ==
    IF den = 0 THEN (IF num = ToU32(0) THEN ToU32(0) ELSE U32_MAX)
    ELSE LET t3 == num[1] \div 256
             t2 == (t3 % den) * 256 + (num[1] % 256)
             t1 == (t2 % den) * 256 + (num[2] \div 256)
             t0 == (t1 % den) * 256 + (num[2] % 256)
             q == <<(t3 \div den) * 256 + (t2 \div den),
                    (t1 \div den) * 256 + (t0 \div den)>>
         IN  IF 2 * (t0 % den) >= den THEN wrapping_add(q, 1) ELSE q

\* (expected_clocks_per_bit * k).round() as u32 with k = kn / kd.
round_scaled(hz, baud, kn, kd) ==
    round_ratio(overflowing_mul(hz, ToU32(kn)).value, baud * kd)

\* clock_derivation > max_clock_rate_derivation, for clocks_per_bit within
\* MIN..MAX (hz below 2^31).  |cpb - hz/baud| / (hz/baud) > tn/td is
\* td * |cpb * baud - hz| > tn * hz; at equality the f64 comparison is
\* decided by rounding noise, the input `noise`.
derivation_exceeds(hz, baud, cpb, tol, noise) ==
    LET d == Val(cpb) * baud - Val(hz)
        lhs == tol[2] * (IF d < 0 THEN -d ELSE d)
        rhs == tol[1] * Val(hz)
    IN  IF lhs = rhs THEN noise ELSE lhs > rhs

\* The stop-bit scale with the arms of Two and OneAndHalf exchanged.
stop_bit_scale_exchanged(stop_bits) ==
    CASE stop_bits = "One" -> <<1, 1>>
      [] stop_bits = "Two" -> <<3, 2>>
      [] stop_bits = "OneAndHalf" -> <<2, 1>>

\* The stop bit's multiple of the bit period, as kn / kd.
stop_bit_scale(stop_bits) ==
    CASE stop_bits = "One" -> <<1, 1>>
      [] stop_bits = "Two" -> <<2, 1>>
      [] stop_bits = "OneAndHalf" -> <<3, 2>>

\* build_plan with the half-bit check moved before the deviation check.
build_plan_half_bit_first(self, noise) ==
    LET frequency == self.frequency.v
        baud == self.baud.v
        max_clock_rate_derivation ==
            IF self.max_clock_derivation.some THEN self.max_clock_derivation.v
            ELSE DEFAULT_MAX_CLOCK_DERIVATION
        clocks_per_bit == round_ratio(frequency, baud)
        stop_bits == IF self.stop_bits.some THEN self.stop_bits.v ELSE "One"
        k == stop_bit_scale(stop_bits)
        clocks_per_stop_bit ==
            IF stop_bits = "One" THEN clocks_per_bit
            ELSE round_scaled(frequency, baud, k[1], k[2])
        clocks_per_half_bit == round_scaled(frequency, baud, 1, 2)
    IN  IF U32Gt(clocks_per_bit, ToU32(MAX_CLOCKS_PER_BIT))
        THEN Err(TooManyClocksPerBit(clocks_per_bit))
        ELSE IF U32Lt(clocks_per_bit, ToU32(MIN_CLOCKS_PER_BIT))
        THEN Err(VeryFewClocksPerBit(clocks_per_bit))
        ELSE IF U32Lt(clocks_per_half_bit, ToU32(MIN_CLOCKS_PER_BIT))
        THEN Err(VeryFewClocksPerHalfBit(clocks_per_bit))
        ELSE IF derivation_exceeds(frequency, baud, clocks_per_bit,
                                   max_clock_rate_derivation, noise)
        THEN Err(TooBigClockDerivation(max_clock_rate_derivation))
        ELSE IF U32Gt(clocks_per_stop_bit, ToU32(MAX_CLOCKS_PER_BIT))
        THEN Err(TooManyClocksPerStopBit(clocks_per_stop_bit))
        ELSE Ok([frequency |-> frequency,
                 baud |-> baud,
                 clocks_per_bit |-> clocks_per_bit,
                 clocks_per_stop_bit |-> clocks_per_stop_bit,
                 clocks_per_half_bit |-> clocks_per_half_bit,
                 tx_port |-> self.tx_port.v,
                 tx_pin |-> self.tx_pin.v,
                 uart_num |-> self.uart_num.v,
                 invert_tx |-> self.invert_tx,
                 rx_port |-> self.rx_port.v,
                 rx_pin |-> self.rx_pin.v,
                 invert_rx |-> self.invert_rx])

\* The checks of build() that follow the unwrapping of the fields.
build_plan(self, noise) ==
    LET frequency == self.frequency.v
        baud == self.baud.v
        max_clock_rate_derivation ==
            IF self.max_clock_derivation.some THEN self.max_clock_derivation.v
            ELSE DEFAULT_MAX_CLOCK_DERIVATION
        clocks_per_bit == round_ratio(frequency, baud)
        stop_bits == IF self.stop_bits.some THEN self.stop_bits.v ELSE "One"
        k == stop_bit_scale(stop_bits)
        clocks_per_stop_bit ==
            IF stop_bits = "One" THEN clocks_per_bit
            ELSE round_scaled(frequency, baud, k[1], k[2])
        clocks_per_half_bit == round_scaled(frequency, baud, 1, 2)
    IN  IF U32Gt(clocks_per_bit, ToU32(MAX_CLOCKS_PER_BIT))
        THEN Err(TooManyClocksPerBit(clocks_per_bit))
        ELSE IF U32Lt(clocks_per_bit, ToU32(MIN_CLOCKS_PER_BIT))
        THEN Err(VeryFewClocksPerBit(clocks_per_bit))
        ELSE IF derivation_exceeds(frequency, baud, clocks_per_bit,
                                   max_clock_rate_derivation, noise)
        THEN Err(TooBigClockDerivation(max_clock_rate_derivation))
        ELSE IF U32Gt(clocks_per_stop_bit, ToU32(MAX_CLOCKS_PER_BIT))
        THEN Err(TooManyClocksPerStopBit(clocks_per_stop_bit))
        ELSE IF U32Lt(clocks_per_half_bit, ToU32(MIN_CLOCKS_PER_BIT))
        THEN Err(VeryFewClocksPerHalfBit(clocks_per_bit))
        ELSE Ok([frequency |-> frequency,
                 baud |-> baud,
                 clocks_per_bit |-> clocks_per_bit,
                 clocks_per_stop_bit |-> clocks_per_stop_bit,
                 clocks_per_half_bit |-> clocks_per_half_bit,
                 tx_port |-> self.tx_port.v,
                 tx_pin |-> self.tx_pin.v,
                 uart_num |-> self.uart_num.v,
                 invert_tx |-> self.invert_tx,
                 rx_port |-> self.rx_port.v,
                 rx_pin |-> self.rx_pin.v,
                 invert_rx |-> self.invert_rx])

build(self, noise) ==
    IF validate_all_params_specified(self).tag = "Err"
    THEN validate_all_params_specified(self)
    ELSE IF first_failed_expect(self) # ""
    THEN Panic(first_failed_expect(self))
    ELSE build_plan(self, noise)

(***************************************************************************)
(* UartGenerator::generate                                                 *)
(***************************************************************************)
NOP == "nop ; 1T"
GOTO_NEXT == "goto .+1 ; 2T"

\* The chain with three nops for three cycles: right in time, not in size.
generate_nop_only_chain(count) ==
    CASE count = 0 -> Ok(<<>>)
      [] count = 1 -> Ok(<<NOP>>)
      [] count = 2 -> Ok(<<GOTO_NEXT>>)
      [] count = 3 -> Ok(<<NOP, NOP, NOP>>)
      [] OTHER -> Panic("Function designed to work only with 4T wait loops")

generate_space_optimal_nop_chain(count) ==
    CASE count = 0 -> Ok(<<>>)
      [] count = 1 -> Ok(<<NOP>>)
      [] count = 2 -> Ok(<<GOTO_NEXT>>)
      [] count = 3 -> Ok(<<GOTO_NEXT, NOP>>)
      [] OTHER -> Panic("Function designed to work only with 4T wait loops")

WAIT_LOOP_MISSING_LOCKS == 1
TX_SET_WAIT_LOOP_COUNTER_CLOCKS == 1
TX_SET_PIN_CLOCKS == 1
TX_BIT_SET_LOOP_LAG_CLOCKS == 5
TX_RESET_BIT_COUNTER_CLOCKS == 2
TX_BIT_COMPARE_AND_SET_PIN_CLOCKS == 8
TX_COMPARE_BIT_COUNT_CLOCKS == 3
RX_CHECK_START_BIT_CLOCKS == 2
RX_FUNCTION_PRELUDE == 1
RX_SET_START_BIT_WAIT_LOOP_COUNTER_CLOCKS == 1
RX_VALIDATE_START_BIT_CLOCKS == 2
RX_SET_BIT_COUNTER_CLOCKS == 2
RX_BIT_LOOP_LAG_CLOCKS == 6
RX_SET_BIT_WAIT_LOOP_COUNTER_CLOCKS == 1
RX_SHIFT_CARRY_CLOCKS == 1
RX_DEC_BIT_COUNTER_CLOCKS == 1
RX_CHECK_BIT_CLOCKS == 3
RX_CHECK_BIT_COUNTER_CLOCKS == 3

\* x - d1 - d2 ... + a1 ..., left to right on u32: `terms` holds the
\* subtrahends as negative and the addends as positive numbers.  The value
\* wraps; `overflow` tells whether any step left the u32 range.
RECURSIVE u32_chain(_, _)
u32_chain(x, terms) ==
    IF terms = <<>> THEN [value |-> x, overflow |-> FALSE]
    ELSE LET t == Head(terms)
             under == t < 0 /\ U32Lt(x, ToU32(-t))
             over == t > 0 /\ overflowing_add(x, t).overflow
             next == IF t < 0 THEN wrapping_sub(x, -t) ELSE wrapping_add(x, t)
             rest == u32_chain(next, Tail(terms))
         IN  [value |-> rest.value, overflow |-> under \/ over \/ rest.overflow]

\* The start-bit interval without the wait loop's missing clock added back.
tx_start_bit_wait_clocks_uncorrected(self) ==
    u32_chain(self.clocks_per_bit,
              <<-TX_BIT_SET_LOOP_LAG_CLOCKS, -TX_SET_WAIT_LOOP_COUNTER_CLOCKS,
                -TX_SET_PIN_CLOCKS, -TX_RESET_BIT_COUNTER_CLOCKS>>)

tx_start_bit_wait_clocks(self) ==
    u32_chain(self.clocks_per_bit,
              <<-TX_BIT_SET_LOOP_LAG_CLOCKS, -TX_SET_WAIT_LOOP_COUNTER_CLOCKS,
                -TX_SET_PIN_CLOCKS, -TX_RESET_BIT_COUNTER_CLOCKS,
                WAIT_LOOP_MISSING_LOCKS>>)

tx_bit_wait_clocks(self) ==
    u32_chain(self.clocks_per_bit,
              <<-TX_BIT_COMPARE_AND_SET_PIN_CLOCKS,
                -TX_SET_WAIT_LOOP_COUNTER_CLOCKS, -TX_COMPARE_BIT_COUNT_CLOCKS,
                WAIT_LOOP_MISSING_LOCKS>>)

\* The stop-bit interval with the start bit's overhead: the bit counter
\* reset is not part of the stop bit.
tx_stop_bit_wait_clocks_as_start(self) ==
    u32_chain(self.clocks_per_stop_bit,
              <<-TX_BIT_SET_LOOP_LAG_CLOCKS, -TX_SET_PIN_CLOCKS,
                -TX_SET_WAIT_LOOP_COUNTER_CLOCKS, -TX_RESET_BIT_COUNTER_CLOCKS,
                WAIT_LOOP_MISSING_LOCKS>>)

tx_stop_bit_wait_clocks(self) ==
    u32_chain(self.clocks_per_stop_bit,
              <<-TX_BIT_SET_LOOP_LAG_CLOCKS, -TX_SET_PIN_CLOCKS,
                -TX_SET_WAIT_LOOP_COUNTER_CLOCKS, WAIT_LOOP_MISSING_LOCKS>>)

rx_start_bit_wait_clocks(self) ==
    u32_chain(self.clocks_per_half_bit,
              <<-RX_CHECK_START_BIT_CLOCKS, -RX_FUNCTION_PRELUDE,
                -RX_SET_START_BIT_WAIT_LOOP_COUNTER_CLOCKS,
                -RX_VALIDATE_START_BIT_CLOCKS, -RX_SET_BIT_COUNTER_CLOCKS,
                WAIT_LOOP_MISSING_LOCKS, RX_BIT_LOOP_LAG_CLOCKS>>)

rx_bit_wait_clocks(self) ==
    u32_chain(self.clocks_per_bit,
              <<-RX_SHIFT_CARRY_CLOCKS, -RX_SET_BIT_WAIT_LOOP_COUNTER_CLOCKS,
                -RX_DEC_BIT_COUNTER_CLOCKS, -RX_CHECK_BIT_CLOCKS,
                -RX_CHECK_BIT_COUNTER_CLOCKS, WAIT_LOOP_MISSING_LOCKS>>)

\* format!("uart{0}_send", n) and its siblings, as the pieces of the text.
tx_name_of(uart_num) == <<"uart", ToString(uart_num), "_send">>

rx_name_of(uart_num) == <<"uart", ToString(uart_num), "_receive">>

rx_byte_name_of(uart_num) == <<"uart", ToString(uart_num), "_rx_byte">>

\* generate() up to the TemplateContext it hands to the renderer.  With
\* overflow checks compiled in (a debug build) an arithmetic step that
\* leaves the u32 range panics; without them it wraps.
generate(self, overflow_checks) ==
    LET clocks == <<tx_start_bit_wait_clocks(self), tx_bit_wait_clocks(self),
                    tx_stop_bit_wait_clocks(self),
                    rx_start_bit_wait_clocks(self), rx_bit_wait_clocks(self)>>
        cycles == [i \in 1..5 |-> U32Div4(clocks[i].value)]
        tails == [i \in 1..5 |->
                    generate_space_optimal_nop_chain(U32Mod4(clocks[i].value))]
    IN  IF overflow_checks /\ \E i \in 1..5 : clocks[i].overflow
        THEN Panic("attempt to subtract with overflow")
        ELSE IF \E i \in 1..5 : tails[i].tag = "Panic"
        THEN tails[CHOOSE i \in 1..5 : tails[i].tag = "Panic"]
        ELSE Ok([frequency |-> self.frequency,
                 baud |-> self.baud,
                 tx_function_name |-> tx_name_of(self.uart_num),
                 tx_port |-> self.tx_port,
                 tx_pin |-> self.tx_pin,
                 tx_inverted |-> self.invert_tx,
                 tx_start_bit_wait_cycles |-> cycles[1],
                 tx_start_bit_tail_wait_instructions |-> tails[1].v,
                 tx_bit_wait_cycles |-> cycles[2],
                 tx_bit_tail_wait_instructions |-> tails[2].v,
                 tx_stop_bit_wait_cycles |-> cycles[3],
                 tx_stop_bit_tail_wait_instructions |-> tails[3].v,
                 rx_function_name |-> rx_name_of(self.uart_num),
                 rx_byte_name |-> rx_byte_name_of(self.uart_num),
                 rx_port |-> self.rx_port,
                 rx_pin |-> self.rx_pin,
                 rx_inverted |-> self.invert_rx,
                 rx_start_bit_wait_cycles |-> cycles[4],
                 rx_start_bit_tail_wait_instructions |-> tails[4].v,
                 rx_bit_wait_cycles |-> cycles[5],
                 rx_bit_tail_wait_instructions |-> tails[5].v])

(***************************************************************************)
(* UART_TEMPLATE rendered with a context: of the emitted text, the wait    *)
(* loops.  Each is `mov a, #counter`, the 4T loop on `dzsn a`, and the     *)
(* tail instructions; `counter` is what the template puts after `#`.       *)
(***************************************************************************)
\* The operand of `MOV a, #15`, the stop-bit loop's counter in the template.
TX_STOP_BIT_COUNTER_LITERAL == 15

UART_TEMPLATE(c) ==
    [tx_function_name |-> c.tx_function_name,
     rx_function_name |-> c.rx_function_name,
     tx_start_bit |-> [counter |-> c.tx_start_bit_wait_cycles,
                       tail |-> c.tx_start_bit_tail_wait_instructions],
     tx_bit |-> [counter |-> c.tx_bit_wait_cycles,
                 tail |-> c.tx_bit_tail_wait_instructions],
     tx_stop_bit |-> [counter |-> ToU32(TX_STOP_BIT_COUNTER_LITERAL),
                      tail |-> c.tx_stop_bit_tail_wait_instructions],
     rx_start_bit |-> [counter |-> c.rx_start_bit_wait_cycles,
                       tail |-> c.rx_start_bit_tail_wait_instructions],
     rx_bit |-> [counter |-> c.rx_bit_wait_cycles,
                 tail |-> c.rx_bit_tail_wait_instructions]]

(***************************************************************************)
(* Inputs                                                                  *)
(***************************************************************************)
\* Every frequency number 0..MaxHz is tried with every suffix.
MaxHz == 70

NamedHz == {100, 104, 512, 513, 682, 683, 1023, 1024, 1025, 1536, 2048, 2049,
            3300, 5000, 4294, 4295, 65536, 4294967, 4294968}

RECURSIVE Decimal(_)
Decimal(n) ==
    IF n < 10 THEN <<DigitChars[n + 1]>>
    ELSE Decimal(n \div 10) \o <<DigitChars[(n % 10) + 1]>>

DigitStrings ==
    {Decimal(n) : n \in (0..MaxHz) \cup NamedHz}
    \cup {<<>>, <<"0", "0", "7">>,
          <<"4", "2", "9", "4", "9", "6", "7", "2", "9", "5">>,
          <<"4", "2", "9", "4", "9", "6", "7", "2", "9", "6">>,
          <<"9", "9", "9", "9", "9", "9", "9", "9", "9", "9", "9">>}

Suffixes ==
    {<<>>, <<"h", "z">>, <<"k", "h", "z">>, <<"m", "h", "z">>,
     <<"M", "H", "z">>, <<"K", "H", "Z">>, <<"f", "o", "o">>, <<"k">>,
     <<"h", "z", "1">>}

FreqTexts == {d \o s : d \in DigitStrings, s \in Suffixes}

\* Baud rates; build() needs them below 2^20 (see round_ratio).
Bauds == {0, 1, 2, 3, 101, 300, 1000, 9600, 38400, 115200}

StopBitsValues == {"One", "Two", "OneAndHalf"}

UartNums == {0, 1}

TxFunctionNames == {None, Some(<<"my_send">>)}

(***************************************************************************)
(* The program                                                             *)
(***************************************************************************)
Init ==
    /\ arg \in FreqTexts
    /\ parsed = None
    /\ config = None
    /\ builder = None
    /\ result = None
    /\ ctx = None
    /\ rendered = None
    /\ pc = "args"

\* clap hands the --freq text to Frequency::from_str.
FromStr ==
    /\ pc = "args"
    /\ parsed' = Frequency_from_str(arg)
    /\ pc' = "freq"
    /\ UNCHANGED <<arg, config, builder, result, ctx, rendered>>

\* AppConfig::parse() completes: the record owns the Frequency and the
\* uart subcommand's values; the text and the intermediate Result are gone.
ParseArgs ==
    /\ pc = "freq"
    /\ parsed.tag = "Ok"
    /\ \E baud \in Bauds, stop_bits \in StopBitsValues, uart_num \in UartNums,
          tx_function_name \in TxFunctionNames :
          config' = [freq |-> parsed.v,
                     subcommand |->
                        [baud |-> baud, tx_port |-> "A", tx_pin |-> 0,
                         invert_tx |-> FALSE,
                         tx_function_name |-> tx_function_name,
                         stop_bits |-> stop_bits, rx_port |-> "A",
                         rx_pin |-> 3, invert_rx |-> FALSE,
                         uart_num |-> uart_num]]
    /\ arg' = <<>>
    /\ parsed' = None
    /\ pc' = "main"
    /\ UNCHANGED <<builder, result, ctx, rendered>>

\* UartGenerator::builder()
NewBuilder ==
    /\ pc = "main"
    /\ builder' = DefaultBuilder
    /\ pc' = "builder"
    /\ UNCHANGED <<arg, parsed, config, result, ctx, rendered>>

\* UartGeneratorBuilder::load_config(&config), any number of times.
LoadConfig ==
    /\ pc = "builder"
    /\ builder' = load_config(builder, config)
    /\ UNCHANGED <<arg, parsed, config, result, ctx, rendered, pc>>

\* UartGeneratorBuilder::build()
Build ==
    /\ pc = "builder"
    /\ \E noise \in BOOLEAN : result' = build(builder, noise)
    /\ pc' = "built"
    /\ UNCHANGED <<arg, parsed, config, builder, ctx, rendered>>

\* UartGenerator::generate() on the plan build() returned: the context,
\* then the text rendered from it and printed.
Generate ==
    /\ pc = "built"
    /\ result.tag = "Ok"
    /\ \E overflow_checks \in BOOLEAN :
          ctx' = generate(result.v, overflow_checks)
    /\ rendered' = IF ctx'.tag = "Ok" THEN Some(UART_TEMPLATE(ctx'.v)) ELSE None
    /\ pc' = "generated"
    /\ UNCHANGED <<arg, parsed, config, builder, result>>

Next == FromStr \/ ParseArgs \/ NewBuilder \/ LoadConfig \/ Build \/ Generate

Spec == Init /\ [][Next]_vars

(***************************************************************************)
(* Helpers of the properties                                               *)
(***************************************************************************)
\* The text of a decimal number, for the literal inputs of the scenarios.
Text(n) == Decimal(n)

\* The builder went through load_config at least once.
Loaded == pc \in {"builder", "built", "generated"} /\ builder.frequency.some

\* The cycle cost of a tail: nop is 1T, goto .+1 is 2T.
RECURSIVE TailCycles(_)
TailCycles(instructions) ==
    IF instructions = <<>> THEN 0
    ELSE (IF Head(instructions) = NOP THEN 1 ELSE 2)
         + TailCycles(Tail(instructions))

WaitPointExact(loop, tail, fixed_overhead, target) ==
    4 * Val(loop) - 1 + TailCycles(tail) + fixed_overhead = Val(target)

\* The configuration is that of a scenario: frequency in Hz, baud, width.
Scenario(hz, baud, stop_bits) ==
    /\ config # None
    /\ config.freq = ToU32(hz)
    /\ config.subcommand.baud = baud
    /\ config.subcommand.stop_bits = stop_bits

(***************************************************************************)
(* C1: for every plan build() accepts, each of the five wait points of     *)
(* generate() satisfies 4*loop - 1 + tail_cycles + fixed_overhead =        *)
(* target_clocks, with (target, overhead) = (clocks_per_bit, 9) for TX     *)
(* start, (clocks_per_bit, 12) for TX data, (clocks_per_stop_bit, 7) for   *)
(* TX stop, (clocks_per_half_bit, 8 - 6) for RX half-bit sync and          *)
(* (clocks_per_bit, 9) for RX data.                                        *)
(***************************************************************************)
C1_WaitPointsExact ==
    pc = "generated" =>
        /\ ctx.tag = "Ok"
        /\ WaitPointExact(ctx.v.tx_start_bit_wait_cycles,
                          ctx.v.tx_start_bit_tail_wait_instructions,
                          9, result.v.clocks_per_bit)
        /\ WaitPointExact(ctx.v.tx_bit_wait_cycles,
                          ctx.v.tx_bit_tail_wait_instructions,
                          12, result.v.clocks_per_bit)
        /\ WaitPointExact(ctx.v.tx_stop_bit_wait_cycles,
                          ctx.v.tx_stop_bit_tail_wait_instructions,
                          7, result.v.clocks_per_stop_bit)
        /\ WaitPointExact(ctx.v.rx_start_bit_wait_cycles,
                          ctx.v.rx_start_bit_tail_wait_instructions,
                          8 - 6, result.v.clocks_per_half_bit)
        /\ WaitPointExact(ctx.v.rx_bit_wait_cycles,
                          ctx.v.rx_bit_tail_wait_instructions,
                          9, result.v.clocks_per_bit)

\* A plan with a one-and-a-half stop bit whose stop interval differs from
\* the bit interval went through generate().
C1_Witness ==
    /\ pc = "generated"
    /\ ctx.tag = "Ok"
    /\ config.subcommand.stop_bits = "OneAndHalf"
    /\ result.v.clocks_per_stop_bit # result.v.clocks_per_bit
    /\ TailCycles(ctx.v.tx_stop_bit_tail_wait_instructions) = 3

(***************************************************************************)
(* C2: every plan build() returns as Ok has 16 <= clocks_per_bit <= 1024,  *)
(* clocks_per_stop_bit <= 1024, clocks_per_half_bit >= 16 and              *)
(* |clocks_per_bit - freq/baud| / (freq/baud) <= 0.01, for every           *)
(* frequency, baud and stop-bit width.                                     *)
(***************************************************************************)
\* 100 * |cpb * baud - hz| <= hz, the deviation bound cleared of fractions.
DeviationWithinOnePercent(plan) ==
    LET d == Val(plan.clocks_per_bit) * plan.baud - Val(plan.frequency)
    IN  100 * (IF d < 0 THEN -d ELSE d) <= Val(plan.frequency)

C2_AcceptedPlanInvariants ==
    (pc = "built" /\ result.tag = "Ok") =>
        /\ ~U32Lt(result.v.clocks_per_bit, ToU32(16))
        /\ ~U32Gt(result.v.clocks_per_bit, ToU32(1024))
        /\ ~U32Gt(result.v.clocks_per_stop_bit, ToU32(1024))
        /\ ~U32Lt(result.v.clocks_per_half_bit, ToU32(16))
        /\ DeviationWithinOnePercent(result.v)

\* An accepted two-stop-bit plan whose rounding deviation is not zero.
C2_Witness ==
    /\ pc = "built"
    /\ result.tag = "Ok"
    /\ config.subcommand.stop_bits = "Two"
    /\ Val(result.v.clocks_per_bit) * result.v.baud # Val(result.v.frequency)

(***************************************************************************)
(* Decimal arithmetic of the parsing properties: the expected value of a   *)
(* frequency text is worked out on its decimal digits, independently of    *)
(* the binary arithmetic of the parser.                                    *)
(***************************************************************************)
DecimalDigits == {"0", "1", "2", "3", "4", "5", "6", "7", "8", "9"}

\* The longest prefix of decimal digits and what follows it.
DigitPrefixLen(s) ==
    CHOOSE k \in 0..Len(s) :
        /\ \A j \in 1..k : s[j] \in DecimalDigits
        /\ (k < Len(s) => s[k + 1] \notin DecimalDigits)

DigitPrefix(s) == SubSeq(s, 1, DigitPrefixLen(s))

SuffixOf(s) == SubSeq(s, DigitPrefixLen(s) + 1, Len(s))

\* A digit string without its leading zeros ("0" for zero).
RECURSIVE StripZeros(_)
StripZeros(d) ==
    IF Len(d) > 1 /\ Head(d) = "0" THEN StripZeros(Tail(d)) ELSE d

\* d <= e for two digit strings of the same length.
RECURSIVE DigitsLe(_, _)
DigitsLe(d, e) ==
    IF d = <<>> THEN TRUE
    ELSE IF Head(d) = Head(e) THEN DigitsLe(Tail(d), Tail(e))
    ELSE to_digit(Head(d)) < to_digit(Head(e))

\* 2^32 - 1 in decimal.
U32MaxText == <<"4", "2", "9", "4", "9", "6", "7", "2", "9", "5">>

\* A stripped digit string is a number below 2^32.
FitsU32(d) == Len(d) < 10 \/ (Len(d) = 10 /\ DigitsLe(d, U32MaxText))

\* The decimal text of a u32 given by its halves.
RECURSIVE U32Text(_)
U32Text(x) ==
    LET t == (x[1] % 10) * W + x[2]
        q == <<x[1] \div 10, t \div 10>>
    IN  IF q = <<0, 0>> THEN <<DigitChars[(t % 10) + 1]>>
        ELSE U32Text(q) \o <<DigitChars[(t % 10) + 1]>>

\* Two letters equal up to case.
SameLetter(a, b) ==
    \/ a = b
    \/ {a, b} \in {{"h", "H"}, {"k", "K"}, {"m", "M"}, {"z", "Z"}}

EqIgnoreCase(s, t) ==
    Len(s) = Len(t) /\ \A i \in 1..Len(s) : SameLetter(s[i], t[i])

\* The decimal zeros a suffix appends (m = 10^zeros); -1 for any other one.
SuffixZeros(sfx) ==
    CASE sfx = <<>> -> 0
      [] EqIgnoreCase(sfx, <<"h", "z">>) -> 0
      [] EqIgnoreCase(sfx, <<"k", "h", "z">>) -> 3
      [] EqIgnoreCase(sfx, <<"m", "h", "z">>) -> 6
      [] OTHER -> -1

\* digits * 10^zeros as a decimal text.
ProductText(d, zeros) ==
    IF StripZeros(d) = <<"0">> THEN <<"0">>
    ELSE StripZeros(d) \o [i \in 1..zeros |-> "0"]

(***************************************************************************)
(* C3: parsing <digits><suffix> returns digits * m (m = 1 for no suffix    *)
(* or hz, 1000 for khz, 1000000 for mhz, whatever the case) exactly when   *)
(* the digits parse as a 32-bit unsigned value, the suffix is one of       *)
(* those and the product is below 2^32; otherwise it returns an error,     *)
(* never a wrapped product.                                                *)
(***************************************************************************)
C3_FrequencyParse ==
    pc = "freq" =>
        LET d == DigitPrefix(arg)
            zeros == SuffixZeros(SuffixOf(arg))
            accepted == /\ d # <<>>
                        /\ FitsU32(StripZeros(d))
                        /\ zeros # -1
                        /\ FitsU32(ProductText(d, zeros))
        IN  IF accepted
            THEN /\ parsed.tag = "Ok"
                 /\ parsed.v \in (0..(W - 1)) \X (0..(W - 1))
                 /\ U32Text(parsed.v) = ProductText(d, zeros)
            ELSE parsed.tag = "Err"

\* A megahertz text in upper case parsed to a value above 2^31.
C3_Witness ==
    /\ pc = "freq"
    /\ SuffixOf(arg) = <<"M", "H", "z">>
    /\ parsed.tag = "Ok"
    /\ parsed.v[1] >= W \div 2

(***************************************************************************)
(* C6 (as the scenario states it): "16mhz" parses to 16000000 Hz,          *)
(* "4294967khz" is rejected with "Frequency is too big" and "12foo" with   *)
(* "Invalid frequency suffix".                                             *)
(***************************************************************************)
C6_Original ==
    pc = "freq" =>
        /\ (arg = Text(16) \o <<"m", "h", "z">>
                => parsed = Ok(ToU32(16000000)))
        /\ (arg = Text(4294967) \o <<"k", "h", "z">> => parsed = Err(TooBig))
        /\ (arg = Text(12) \o <<"f", "o", "o">>
                => parsed = Err(InvalidSuffix))

(***************************************************************************)
(* C6 (amended): "16mhz" parses to 16000000 Hz, "4294967khz" parses to     *)
(* 4294967000 Hz (below 2^32, no overflow; "4294968khz" is the first       *)
(* kilohertz text rejected with "Frequency is too big") and "12foo" is     *)
(* rejected with "Invalid frequency suffix".                               *)
(***************************************************************************)
C6_ScenarioS6 ==
    pc = "freq" =>
        /\ (arg = Text(16) \o <<"m", "h", "z">>
                => parsed = Ok(ToU32(16000000)))
        /\ (arg = Text(4294967) \o <<"k", "h", "z">>
                => /\ parsed.tag = "Ok"
                   /\ U32Text(parsed.v) = Text(4294967) \o <<"0", "0", "0">>)
        /\ (arg = Text(4294968) \o <<"k", "h", "z">> => parsed = Err(TooBig))
        /\ (arg = Text(12) \o <<"f", "o", "o">>
                => parsed = Err(InvalidSuffix))

C6_Witness ==
    /\ pc = "freq"
    /\ arg = Text(4294967) \o <<"k", "h", "z">>
    /\ parsed.tag = "Ok"

(***************************************************************************)
(* C4 (as the scenario states it): for 8 MHz, 115200 baud, one stop bit    *)
(* the plan is accepted with clocks_per_bit = 69 and generate() yields a   *)
(* start-bit wait of 15 iterations with a one-nop tail, a data-bit wait    *)
(* of 15 iterations with an empty tail and a stop-bit wait of 15           *)
(* iterations with a 2-cycle tail (one goto .+1).                          *)
(***************************************************************************)
C4_Original ==
    (pc = "generated" /\ Scenario(8000000, 115200, "One")) =>
        /\ ctx.tag = "Ok"
        /\ result.v.clocks_per_bit = ToU32(69)
        /\ ctx.v.tx_start_bit_wait_cycles = ToU32(15)
        /\ ctx.v.tx_start_bit_tail_wait_instructions = <<NOP>>
        /\ ctx.v.tx_bit_wait_cycles = ToU32(15)
        /\ ctx.v.tx_bit_tail_wait_instructions = <<>>
        /\ ctx.v.tx_stop_bit_wait_cycles = ToU32(15)
        /\ ctx.v.tx_stop_bit_tail_wait_instructions = <<GOTO_NEXT>>

(***************************************************************************)
(* C4 (amended): for 8 MHz, 115200 baud, one stop bit the plan is          *)
(* accepted with clocks_per_bit = 69 and generate() yields a start-bit     *)
(* wait of 15 iterations with a one-nop tail, a data-bit wait of 14        *)
(* iterations with a 2-cycle tail (one goto .+1) and a stop-bit wait of    *)
(* 15 iterations with a 3-cycle tail (goto .+1, then nop).                 *)
(***************************************************************************)
C4_ScenarioS1 ==
    (pc = "generated" /\ Scenario(8000000, 115200, "One")) =>
        /\ ctx.tag = "Ok"
        /\ result.v.clocks_per_bit = ToU32(69)
        /\ ctx.v.tx_start_bit_wait_cycles = ToU32(15)
        /\ ctx.v.tx_start_bit_tail_wait_instructions = <<NOP>>
        /\ ctx.v.tx_bit_wait_cycles = ToU32(14)
        /\ ctx.v.tx_bit_tail_wait_instructions = <<GOTO_NEXT>>
        /\ ctx.v.tx_stop_bit_wait_cycles = ToU32(15)
        /\ ctx.v.tx_stop_bit_tail_wait_instructions = <<GOTO_NEXT, NOP>>

C4_Witness == pc = "generated" /\ Scenario(8000000, 115200, "One")

(***************************************************************************)
(* C5 (as the scenario states it): for 8 MHz, 9600 baud, two stop bits     *)
(* build() computes clocks_per_bit = 833 and rejects with                  *)
(* TooManyClocksPerBit(833), raised by the data-bit check.                 *)
(***************************************************************************)
C5_Original ==
    (pc = "built" /\ Loaded /\ Scenario(8000000, 9600, "Two")) =>
        result = Err(TooManyClocksPerBit(ToU32(833)))

(***************************************************************************)
(* C5 (amended): for 8 MHz, 9600 baud, two stop bits build() computes      *)
(* clocks_per_bit = 833, which passes the data-bit checks (833 <= 1024),   *)
(* and rejects with TooManyClocksPerStopBit(1667), raised by the stop-bit  *)
(* check.                                                                  *)
(***************************************************************************)
C5_ScenarioS4 ==
    (pc = "built" /\ Loaded /\ Scenario(8000000, 9600, "Two")) =>
        /\ round_ratio(builder.frequency.v, builder.baud.v) = ToU32(833)
        /\ result = Err(TooManyClocksPerStopBit(ToU32(1667)))

C5_Witness ==
    /\ pc = "built"
    /\ Loaded
    /\ Scenario(8000000, 9600, "Two")
    /\ result.tag = "Err"

(***************************************************************************)
(* C7: with a --tx-function-name value in the configuration the TX         *)
(* function name of the emission context is that value instead of          *)
(* uart{N}_send; the RX function name is uart{N}_receive in every case.    *)
(***************************************************************************)
C7_TxFunctionNameOverride ==
    (pc = "generated" /\ ctx.tag = "Ok") =>
        /\ ctx.v.tx_function_name =
              (IF config.subcommand.tx_function_name.some
               THEN config.subcommand.tx_function_name.v
               ELSE <<"uart", ToString(config.subcommand.uart_num), "_send">>)
        /\ ctx.v.rx_function_name =
              <<"uart", ToString(config.subcommand.uart_num), "_receive">>

(***************************************************************************)
(* C8: after builder() and any number of load_config calls, build() on a   *)
(* builder with a required field missing (frequency, baud, TX port or      *)
(* pin, RX port or pin, uart number) returns InvalidOptions; build()       *)
(* never panics on a missing field.                                        *)
(***************************************************************************)
RequiredFields ==
    {"frequency", "baud", "tx_port", "tx_pin", "rx_port", "rx_pin", "uart_num"}

C8_MissingFieldIsInvalidOptions ==
    pc = "built" =>
        /\ result.tag # "Panic"
        /\ ((\E f \in RequiredFields : ~builder[f].some)
                => result = Err(InvalidOptions))

\* build() ran on the builder as builder() made it.
C8_Witness ==
    /\ pc = "built"
    /\ \A f \in RequiredFields : ~builder[f].some
    /\ result = Err(InvalidOptions)

(***************************************************************************)
(* The five checks of build() as the specification lists them, each a      *)
(* predicate of the loaded builder that is defined for every input.        *)
(***************************************************************************)
LoadedHz == builder.frequency.v

LoadedBaud == builder.baud.v

LoadedScale == stop_bit_scale(builder.stop_bits.v)

BitClocks == round_ratio(LoadedHz, LoadedBaud)

\* (1) clocks_per_bit > 1024
TooManyPerBit == U32Gt(BitClocks, ToU32(1024))

\* (2) clocks_per_bit < 16
TooFewPerBit == U32Lt(BitClocks, ToU32(16))

\* (3) |clocks_per_bit - freq/baud| / (freq/baud) > 1/100.  Above 1024
\* clocks the rounding error is below 1/2048 of the quotient, and a
\* quotient that is zero, infinite or undefined compares false.
DeviationTooBig(noise) ==
    IF TooManyPerBit \/ LoadedBaud = 0 \/ LoadedHz = ToU32(0) THEN FALSE
    ELSE LET d == Val(BitClocks) * LoadedBaud - Val(LoadedHz)
             a == IF d < 0 THEN -d ELSE d
         IN  IF 100 * a = Val(LoadedHz) THEN noise ELSE 100 * a > Val(LoadedHz)

\* (4) clocks_per_stop_bit > 1024; the stop bit is at least one bit long.
TooManyPerStopBit ==
    IF TooManyPerBit THEN TRUE
    ELSE U32Gt(round_scaled(LoadedHz, LoadedBaud, LoadedScale[1], LoadedScale[2]),
               ToU32(1024))

\* (5) clocks_per_half_bit < 16; above 1024 clocks the half is above 512.
TooFewPerHalfBit ==
    IF TooManyPerBit THEN FALSE
    ELSE U32Lt(round_scaled(LoadedHz, LoadedBaud, 1, 2), ToU32(16))

FailingChecks(noise) ==
    {i \in 1..5 :
        CASE i = 1 -> TooManyPerBit
          [] i = 2 -> TooFewPerBit
          [] i = 3 -> DeviationTooBig(noise)
          [] i = 4 -> TooManyPerStopBit
          [] i = 5 -> TooFewPerHalfBit}

KindOfCheck ==
    <<"TooManyClocksPerBit", "VeryFewClocksPerBit", "TooBigClockDerivation",
      "TooManyClocksPerStopBit", "VeryFewClocksPerHalfBit">>

ExpectedOutcome(noise) ==
    LET failing == FailingChecks(noise)
    IN  IF failing = {} THEN "Ok"
        ELSE KindOfCheck[CHOOSE i \in failing : \A j \in failing : i <= j]

OutcomeOf(r) ==
    CASE r.tag = "Ok" -> "Ok"
      [] r.tag = "Err" -> r.err.kind
      [] OTHER -> "Panic"

(***************************************************************************)
(* C9: build() applies its checks in the order (1) clocks_per_bit > 1024,  *)
(* (2) clocks_per_bit < 16, (3) deviation > tolerance, (4)                 *)
(* clocks_per_stop_bit > 1024, (5) clocks_per_half_bit < 16: the error     *)
(* returned is that of the first check in this order that fails, and the   *)
(* plan is accepted exactly when none fails.  (A deviation equal to the    *)
(* tolerance counts as either outcome of check (3).)                       *)
(***************************************************************************)
C9_FirstFailingCheckWins ==
    (pc = "built" /\ Loaded) =>
        \E noise \in BOOLEAN : OutcomeOf(result) = ExpectedOutcome(noise)

\* The deviation check and the half-bit check both fail: the earlier wins.
C9_Witness ==
    /\ pc = "built"
    /\ Loaded
    /\ \A noise \in BOOLEAN : {3, 5} \subseteq FailingChecks(noise)
    /\ OutcomeOf(result) = "TooBigClockDerivation"

(***************************************************************************)
(* C10: when build() rejects because the half-bit interval is below the    *)
(* minimum, VeryFewClocksPerHalfBit(n) carries n = clocks_per_half_bit =   *)
(* round(0.5 * freq / baud), the value that was compared against 16.       *)
(***************************************************************************)
C10_HalfBitErrorCarriesHalfBitClocks ==
    (pc = "built" /\ Loaded /\ OutcomeOf(result) = "VeryFewClocksPerHalfBit")
        => result.err.n = round_scaled(LoadedHz, LoadedBaud, 1, 2)

(***************************************************************************)
(* The emitted wait loops                                                  *)
(***************************************************************************)
\* The cycles between two edges around an emitted wait loop: the fixed
\* instructions, the loop (4T an iteration, the last one 1T shorter) and
\* the tail.
EmittedInterval(loop, fixed_overhead) ==
    fixed_overhead + 4 * Val(loop.counter) - 1 + TailCycles(loop.tail)

(***************************************************************************)
(* C11: for every accepted plan the counter loaded before the emitted TX   *)
(* stop-bit wait loop equals the computed tx_stop_bit_wait_cycles, so      *)
(* that the emitted stop-bit interval lasts clocks_per_stop_bit cycles,    *)
(* for every stop-bit width and every accepted frequency and baud.         *)
(***************************************************************************)
C11_StopBitCounterIsComputed ==
    (pc = "generated" /\ ctx.tag = "Ok") =>
        /\ rendered.v.tx_stop_bit.counter = ctx.v.tx_stop_bit_wait_cycles
        /\ EmittedInterval(rendered.v.tx_stop_bit, 7)
              = Val(result.v.clocks_per_stop_bit)

(***************************************************************************)
(* The five wait points of a generated context, each with the plan's       *)
(* target interval, the clocks generate() subtracts from it and the        *)
(* overhead that remains once the loop's missing clock is added back.      *)
(***************************************************************************)
WaitPoints ==
    <<[target |-> result.v.clocks_per_bit, subtracted |-> 9, overhead |-> 9,
       cycles |-> ctx.v.tx_start_bit_wait_cycles,
       tail |-> ctx.v.tx_start_bit_tail_wait_instructions],
      [target |-> result.v.clocks_per_bit, subtracted |-> 12, overhead |-> 12,
       cycles |-> ctx.v.tx_bit_wait_cycles,
       tail |-> ctx.v.tx_bit_tail_wait_instructions],
      [target |-> result.v.clocks_per_stop_bit, subtracted |-> 7,
       overhead |-> 7,
       cycles |-> ctx.v.tx_stop_bit_wait_cycles,
       tail |-> ctx.v.tx_stop_bit_tail_wait_instructions],
      [target |-> result.v.clocks_per_half_bit, subtracted |-> 8,
       overhead |-> 8 - 6,
       cycles |-> ctx.v.rx_start_bit_wait_cycles,
       tail |-> ctx.v.rx_start_bit_tail_wait_instructions],
      [target |-> result.v.clocks_per_bit, subtracted |-> 9, overhead |-> 9,
       cycles |-> ctx.v.rx_bit_wait_cycles,
       tail |-> ctx.v.rx_bit_tail_wait_instructions]>>

\* The residual cycles of a wait point: (target - overhead + 1) mod 4.
TailOf(point) == (Val(point.target) + 1 - point.overhead) % 4

\* The fewest 1T and 2T instructions that take t cycles.
FewestInstructions(t) ==
    CHOOSE n \in 0..t :
        /\ \E nops \in 0..n : nops + 2 * (n - nops) = t
        /\ \A k \in 0..(n - 1) : \A nops \in 0..k : nops + 2 * (k - nops) # t

(***************************************************************************)
(* C12: for every accepted plan and each of the five wait points the tail  *)
(* passed to generate_space_optimal_nop_chain is in 0..3 (its panic is     *)
(* never reached), and the list returned has length 0, 1, 1, 2 for tails   *)
(* 0, 1, 2, 3, with cycle costs (nop 1T, goto .+1 2T) summing to the       *)
(* tail: the fewest instructions with that cycle count.                    *)
(***************************************************************************)
C12_TailChainsMinimal ==
    pc = "generated" =>
        /\ ctx.tag = "Ok"
        /\ \A i \in 1..5 :
              LET point == WaitPoints[i]
              IN  /\ TailOf(point) \in 0..3
                  /\ \A k \in 1..Len(point.tail) :
                        point.tail[k] \in {NOP, GOTO_NEXT}
                  /\ TailCycles(point.tail) = TailOf(point)
                  /\ Len(point.tail) = <<0, 1, 1, 2>>[TailOf(point) + 1]
                  /\ Len(point.tail) = FewestInstructions(TailOf(point))

\* One context whose wait points have the tails 0, 1, 2 and 3.
C12_Witness ==
    /\ pc = "generated"
    /\ ctx.tag = "Ok"
    /\ {TailCycles(WaitPoints[i].tail) : i \in 1..5} = 0..3

(***************************************************************************)
(* C13: for every plan build() accepts, none of the five u32 wait-clock    *)
(* computations of generate() underflows (each target is at least what is  *)
(* subtracted from it), and each loop-iteration count lies in 1..255.      *)
(***************************************************************************)
C13_NoUnderflowAndByteCounter ==
    pc = "generated" =>
        /\ ctx.tag = "Ok"
        /\ ~tx_start_bit_wait_clocks(result.v).overflow
        /\ ~tx_bit_wait_clocks(result.v).overflow
        /\ ~tx_stop_bit_wait_clocks(result.v).overflow
        /\ ~rx_start_bit_wait_clocks(result.v).overflow
        /\ ~rx_bit_wait_clocks(result.v).overflow
        /\ \A i \in 1..5 :
              /\ ~U32Lt(WaitPoints[i].target, ToU32(WaitPoints[i].subtracted))
              /\ ~U32Lt(WaitPoints[i].cycles, ToU32(1))
              /\ ~U32Gt(WaitPoints[i].cycles, ToU32(255))

\* The longest accepted bit: 1024 clocks, a start-bit loop of 254 rounds.
C13_Witness ==
    /\ pc = "generated"
    /\ ctx.tag = "Ok"
    /\ result.v.clocks_per_bit = ToU32(1024)
    /\ ctx.v.tx_start_bit_wait_cycles = ToU32(254)

====
